---- MODULE Spec2Model ----
(***************************************************************************)
(* Order lifecycle and risk-gating pipeline of StreamScalp Pro.            *)
(*                                                                         *)
(*   OrderManager   src/order_manager/order_manager.py                     *)
(*   RiskManager    src/risk_manager/risk_manager.py                       *)
(*   OrderStateManager  src/order_manager/order_state.py                   *)
(*   EventBus       src/utils/event_bus.py                                 *)
(*                                                                         *)
(* Every OrderManager coroutine is written as a chain of step operators,   *)
(* one per resumption after an await on the exchange adapter or the event  *)
(* bus; each maps the coroutine's frame to its next frame.  Awaits on      *)
(* RiskManager coroutines never suspend (they contain no await), so they   *)
(* belong to the step that issues them.  Under Spec a call runs from       *)
(* invocation to return in one action, the outcome of every adapter and    *)
(* transport call being chosen where the code reaches it.  The exchange    *)
(* adapter and the Redis transport are collaborators: they may answer,     *)
(* answer with an error, or raise.                                         *)
(***************************************************************************)
EXTENDS Integers, Sequences, FiniteSets, TLC

(* ---------------- bounds of the model ---------------- *)
MaxCalls == 2          \* OrderManager calls made in one behaviour
MaxMsgs == 2           \* messages strategies publish on the event bus
MaxOsmCalls == 3       \* initialize / update / reconcile calls made on the OrderStateManager
MaxRiskCalls == 3      \* record_position_open / record_position_close calls made on the RiskManager
MaxGranted == 4        \* should_retry is followed until it has said True this often for a key
MaxTasks == 2          \* OrderManager coroutines in flight at the same time
MaxDiCalls == 4        \* register / register_factory / get calls made on the DIContainer

(* ---------------- input domains ---------------- *)
Symbols == {"BTC", "ETH"}
Sides == {"buy", "sell"}
Quantities == {1}
Absent == 0                        \* key missing from a dict (.get gives the default)
Prices == {Absent, 30}             \* order_data.get('price')
Balances == {0, 1000}              \* account_info.get('balance', 0)
NoKey == 0                         \* intent without 'order_id'
ClientKeys == {1}  \* order_id values a caller supplies in order_data
FillQtys == {Absent, 2}            \* result.get("filled")
FillPrices == {Absent, 90}         \* result.get("price")
CreateStatuses == {"open", "filled", "closed", "error"}
VenueStatuses == {"open", "closed", "filled", "canceled", "expired", "rejected", "error"}
FullAmount == {2}                  \* details['amount'] of a venue status report
BusTopics == {"order.new", "order.cancel"}
EvalBalances == {-500, 0, 500, 1000}   \* account_balance handed to evaluate_order
OpenQuantities == {1, 2}           \* position['quantity'] of a position recorded directly
OpenPrices == {90}                 \* position['price'] of a position recorded directly
Pnls == {-30, 20}                  \* pnl handed to record_position_close
TradePnls == {Absent, -30}                   \* "pnl" of a trade given to record_trade; Absent: no such key
NewConfigs ==                                \* new_config given to update_config; Absent: no such key
    {[max_position_size |-> Absent, max_daily_loss |-> Absent,
      max_open_positions |-> 2, max_exposure_per_asset |-> Absent],
     [max_position_size |-> 10, max_daily_loss |-> 1,
      max_open_positions |-> 2, max_exposure_per_asset |-> 20]}
ComponentNames == {"logger_factory", "config"}   \* names components are registered under
Instances == {-1}                            \* an instance handed to register / register_instance
Factories == {"no parameter", "required parameter"}   \* lambda: ..., and lambda name, **kwargs: ...
OrderIds == {1, 2}                 \* order ids handed to the OrderStateManager
ExchangeStatuses == {"new", "open", "closed", "CLOSED", "canceled", "expired",
                     "rejected", "failed", "filled"}
DetailFilled == {Absent, 1, 2}     \* details.get('filled')
DetailAmount == {Absent, 2}        \* details.get('amount')

(* ---------------- RiskManager configuration ---------------- *)
\* limits are fractions of the account balance, kept as percentages
max_position_size == 5
max_daily_loss == 2
max_open_positions == 1
max_exposure_per_asset == 10

(* ---------------- OrderStateManager ---------------- *)
PENDING == "pending"
SENT == "sent_to_exchange"
FILLED == "filled"
PARTIALLY_FILLED == "partially_filled"
CANCELED == "canceled"
REJECTED == "rejected"
ERROR == "error"
OrderState == {PENDING, SENT, FILLED, PARTIALLY_FILLED, CANCELED, REJECTED, ERROR}
max_retries == 3

VARIABLES
    running,          \* OrderManager.running
    ncalls,           \* number of OrderManager calls made so far
    last,             \* frame of the OrderManager call that returned last
    create_orders,    \* client order key -> number of create_order requests sent for it
    open_positions,   \* RiskManager.open_positions: symbol -> position
    daily_pnl,        \* RiskManager.daily_pnl
    daily_trades,     \* RiskManager.daily_trades (its length)
    limits,           \* RiskManager.max_position_size, max_daily_loss, max_open_positions, max_exposure_per_asset
    risk_call,        \* the call made last on the RiskManager itself, with what it returned
    risk_ncalls,      \* number of positions opened or closed by such calls
    close_args,       \* sum of the pnl arguments of such record_position_close calls since the reset
    realized_args,    \* the same sum over the calls that found a position to close
    order_states,     \* OrderStateManager.order_states: order id -> state
    order_history,    \* OrderStateManager.order_history: order id -> sequence of states
    retry_attempts,   \* OrderStateManager.retry_attempts: order id -> count
    osm_call,         \* the OrderStateManager call made last, with what it returned
    osm_ncalls,       \* number of initialize / update / reconcile calls made so far
    retries_granted,  \* order id -> number of times should_retry has returned True
    pubsub_channels,  \* channels EventBus.pubsub is subscribed to
    bus_queue,        \* messages received by the pubsub, not yet read by listen()
    published,        \* messages strategies published on order.new / order.cancel
    yielded,          \* messages listen() has yielded
    subscribed_at,    \* per subscribed channel, how many messages had been published when it was subscribed
    mock_events,      \* MockEventBus.events: per event type, the data stored
    components,       \* DIContainer._components: name -> instance
    factories,        \* DIContainer._factories: name -> (factory, is_singleton)
    made,             \* instances the factories have created so far
    factory_calls,    \* per name, invocations of the factory registered under it
    di_call,          \* the last call made on the DIContainer and its outcome
    di_ncalls,        \* calls made on the DIContainer
    tasks             \* the frames of OrderManager coroutines run as concurrent asyncio tasks

vars == <<running, ncalls, last, create_orders, open_positions, daily_pnl, daily_trades,
          limits, risk_call, risk_ncalls, close_args, realized_args,
          order_states, order_history, retry_attempts, osm_call, osm_ncalls, retries_granted,
          pubsub_channels, bus_queue, published, yielded, subscribed_at, mock_events,
          components, factories, made, factory_calls, di_call, di_ncalls, tasks>>

omVars == <<running, ncalls, last, create_orders>>
riskVars == <<open_positions, daily_pnl, daily_trades>>
riskCalls == <<risk_call, risk_ncalls, close_args, realized_args>>
riskConfig == <<limits>>
diVars == <<components, factories, made, factory_calls, di_call, di_ncalls>>
taskVars == <<tasks>>
osmVars == <<order_states, order_history, retry_attempts, osm_call, osm_ncalls, retries_granted>>
busVars == <<pubsub_channels, bus_queue, published, yielded, subscribed_at, mock_events>>

EmptyMap == [x \in {} |-> 0]

(* ---------------- values ---------------- *)
\* an adapter answer: kind is "raise", "empty" (None, {} or False) or "dict"
Answer(kind, status, filled, price, amount) ==
    [kind |-> kind, status |-> status, filled |-> filled, price |-> price, amount |-> amount]
NoResult == Answer("none", "", Absent, Absent, Absent)

\* what a coroutine returned
Pending == [tag |-> "pending", status |-> "", error |-> ""]
RetNone == [tag |-> "None", status |-> "", error |-> ""]
RetRaised == [tag |-> "raised", status |-> "", error |-> ""]
RetTrue == [tag |-> "True", status |-> "", error |-> ""]
RetFalse == [tag |-> "False", status |-> "", error |-> ""]
RetResult(r) == [tag |-> "result", status |-> r.status, error |-> ""]
RetError(msg) == [tag |-> "result", status |-> "error", error |-> msg]

Event(topic, id, info) == [topic |-> topic, order_id |-> id, info |-> info]

(* ======================= RiskManager ======================= *)

\* evaluate_order, the exposure loop: value of the open position in `symbol`
CurrentExposure(symbol) ==
    IF symbol \in DOMAIN open_positions THEN open_positions[symbol].value ELSE 0

\* evaluate_order with the position size check of lines 97-103 left out
evaluate_order_unlimited_size(symbol, side, quantity, price, account_balance) ==
    LET order_value == quantity * price
        new_exposure == CurrentExposure(symbol) + (IF side = "buy" THEN order_value ELSE 0)
    IN  IF Cardinality(DOMAIN open_positions) >= limits.max_open_positions /\ side = "buy"
        THEN [approved |-> "no", reason |-> "maximum open positions reached"]
        ELSE IF new_exposure * 100 > limits.max_exposure_per_asset * account_balance
        THEN [approved |-> "no", reason |-> "total exposure exceeds maximum"]
        ELSE IF daily_pnl < 0 /\ (0 - daily_pnl) * 100 > account_balance * limits.max_daily_loss
        THEN [approved |-> "no", reason |-> "daily loss limit reached"]
        ELSE [approved |-> "yes", reason |-> ""]

\* evaluate_order with the exposure check of lines 113-130 left out
evaluate_order_unlimited_exposure(symbol, side, quantity, price, account_balance) ==
    LET order_value == quantity * price
    IN  IF account_balance <= 0 \/ order_value * 100 > limits.max_position_size * account_balance
        THEN [approved |-> "no", reason |-> "position size exceeds maximum"]
        ELSE IF Cardinality(DOMAIN open_positions) >= limits.max_open_positions /\ side = "buy"
        THEN [approved |-> "no", reason |-> "maximum open positions reached"]
        ELSE IF daily_pnl < 0 /\ (0 - daily_pnl) * 100 > account_balance * limits.max_daily_loss
        THEN [approved |-> "no", reason |-> "daily loss limit reached"]
        ELSE [approved |-> "yes", reason |-> ""]

\* evaluate_order with the daily loss check of lines 132-138 left out
evaluate_order_unlimited_loss(symbol, side, quantity, price, account_balance) ==
    LET order_value == quantity * price
        new_exposure == CurrentExposure(symbol) + (IF side = "buy" THEN order_value ELSE 0)
    IN  IF account_balance <= 0 \/ order_value * 100 > limits.max_position_size * account_balance
        THEN [approved |-> "no", reason |-> "position size exceeds maximum"]
        ELSE IF Cardinality(DOMAIN open_positions) >= limits.max_open_positions /\ side = "buy"
        THEN [approved |-> "no", reason |-> "maximum open positions reached"]
        ELSE IF new_exposure * 100 > limits.max_exposure_per_asset * account_balance
        THEN [approved |-> "no", reason |-> "total exposure exceeds maximum"]
        ELSE [approved |-> "yes", reason |-> ""]

\* RiskManager.evaluate_order.  The code compares float ratios
\* (order_value / account_balance > limit); here both sides are multiplied by
\* 100 * account_balance, which is positive wherever a ratio is compared.
evaluate_order(symbol, side, quantity, price, account_balance) ==
    LET order_value == quantity * price
        new_exposure == CurrentExposure(symbol) + (IF side = "buy" THEN order_value ELSE 0)
    IN  IF account_balance <= 0 \/ order_value * 100 > limits.max_position_size * account_balance
        THEN [approved |-> "no", reason |-> "position size exceeds maximum"]
        ELSE IF Cardinality(DOMAIN open_positions) >= limits.max_open_positions /\ side = "buy"
        THEN [approved |-> "no", reason |-> "maximum open positions reached"]
        ELSE IF new_exposure * 100 > limits.max_exposure_per_asset * account_balance
        THEN [approved |-> "no", reason |-> "total exposure exceeds maximum"]
        ELSE IF daily_pnl < 0 /\ (0 - daily_pnl) * 100 > account_balance * limits.max_daily_loss
        THEN [approved |-> "no", reason |-> "daily loss limit reached"]
        ELSE [approved |-> "yes", reason |-> ""]

\* RiskManager.record_position_open: last write wins
record_position_open(position) ==
    /\ open_positions' = [s \in DOMAIN open_positions \cup {position.symbol} |->
                            IF s = position.symbol THEN position ELSE open_positions[s]]
    /\ UNCHANGED <<daily_pnl, daily_trades>>

\* record_position_close with the test of line 162 left out
record_position_close_unchecked(symbol, pnl) ==
    /\ open_positions' = [s \in DOMAIN open_positions \ {symbol} |-> open_positions[s]]
    /\ daily_pnl' = daily_pnl + pnl
    /\ UNCHANGED daily_trades

\* record_position_close adding the pnl also when no position is open
record_position_close_always_adding(symbol, pnl) ==
    /\ open_positions' = [s \in DOMAIN open_positions \ {symbol} |-> open_positions[s]]
    /\ daily_pnl' = daily_pnl + pnl
    /\ UNCHANGED daily_trades

\* RiskManager.record_position_close
record_position_close(symbol, pnl) ==
    IF symbol \in DOMAIN open_positions
    THEN /\ open_positions' = [s \in DOMAIN open_positions \ {symbol} |-> open_positions[s]]
         /\ daily_pnl' = daily_pnl + pnl
         /\ UNCHANGED daily_trades
    ELSE UNCHANGED <<open_positions, daily_pnl, daily_trades>>

\* reset_daily_metrics clearing the open positions as well
reset_daily_metrics_clearing ==
    /\ daily_pnl' = 0
    /\ daily_trades' = 0
    /\ open_positions' = EmptyMap
    /\ close_args' = 0
    /\ realized_args' = 0
    /\ UNCHANGED <<limits, risk_call, risk_ncalls>>
    /\ UNCHANGED diVars
    /\ UNCHANGED taskVars
    /\ UNCHANGED omVars
    /\ UNCHANGED osmVars
    /\ UNCHANGED busVars

\* RiskManager.reset_daily_metrics, run by _schedule_daily_reset
reset_daily_metrics ==
    /\ daily_pnl' = 0
    /\ daily_trades' = 0
    /\ close_args' = 0
    /\ realized_args' = 0
    /\ UNCHANGED <<open_positions, limits, risk_call, risk_ncalls>>
    /\ UNCHANGED diVars
    /\ UNCHANGED taskVars
    /\ UNCHANGED omVars
    /\ UNCHANGED osmVars
    /\ UNCHANGED busVars

\* a call made on the RiskManager and what it returned
RiskCall(op, symbol, side, quantity, price, account_balance, pnl, result) ==
    [op |-> op, symbol |-> symbol, side |-> side, quantity |-> quantity, price |-> price,
     account_balance |-> account_balance, pnl |-> pnl, is_closing_trade |-> FALSE,
     approved |-> result.approved, reason |-> result.reason]
NoDecision == [approved |-> "na", reason |-> ""]

\* the rest of the system during a call on the RiskManager
RiskFrame ==
    /\ UNCHANGED <<ncalls, last, create_orders>>
    /\ UNCHANGED riskConfig
    /\ UNCHANGED diVars
    /\ UNCHANGED taskVars
    /\ UNCHANGED osmVars
    /\ UNCHANGED busVars

\* a caller asks for a decision on an order
EvaluateOrder(symbol, side, quantity, price, account_balance) ==
    /\ risk_call' = RiskCall("evaluate_order", symbol, side, quantity, price, account_balance, 0,
                             evaluate_order(symbol, side, quantity, price, account_balance))
    /\ UNCHANGED riskVars
    /\ UNCHANGED <<risk_ncalls, close_args, realized_args, running>>
    /\ RiskFrame

\* a caller records an opened position
RecordPositionOpen(symbol, quantity, price) ==
    /\ risk_ncalls < MaxRiskCalls
    /\ record_position_open([symbol |-> symbol, side |-> "buy", quantity |-> quantity,
                             price |-> price, value |-> quantity * price])
    /\ risk_call' = RiskCall("record_position_open", symbol, "buy", quantity, price, 0, 0, NoDecision)
    /\ risk_ncalls' = risk_ncalls + 1
    /\ UNCHANGED <<close_args, realized_args, running>>
    /\ RiskFrame

\* a caller records a closed position
RecordPositionClose(symbol, pnl) ==
    /\ risk_ncalls < MaxRiskCalls
    /\ record_position_close(symbol, pnl)
    /\ risk_call' = RiskCall("record_position_close", symbol, "", 0, Absent, 0, pnl, NoDecision)
    /\ risk_ncalls' = risk_ncalls + 1
    /\ close_args' = close_args + pnl
    /\ realized_args' = IF symbol \in DOMAIN open_positions THEN realized_args + pnl ELSE realized_args
    /\ UNCHANGED running
    /\ RiskFrame

\* record_trade adding the pnl of every trade, closing or not
record_trade_always_adding(is_closing_trade, pnl) ==
    /\ daily_trades' = daily_trades + 1
    /\ daily_pnl' = daily_pnl + pnl
    /\ UNCHANGED open_positions

\* RiskManager.record_trade: the trade joins daily_trades, and the pnl of a
\* trade flagged is_closing_trade (0 when the key is missing) is added to
\* daily_pnl
record_trade(is_closing_trade, pnl) ==
    /\ daily_trades' = daily_trades + 1
    /\ daily_pnl' = IF is_closing_trade THEN daily_pnl + pnl ELSE daily_pnl
    /\ UNCHANGED open_positions

\* RiskManager.update_config: each limit whose key is in new_config is replaced
update_config(new_config) ==
    limits' = [k \in DOMAIN limits |->
                 IF new_config[k] # Absent THEN new_config[k] ELSE limits[k]]

\* a caller records a trade
RecordTrade(is_closing_trade, pnl) ==
    /\ risk_ncalls < MaxRiskCalls
    /\ record_trade(is_closing_trade, pnl)
    /\ risk_call' = [RiskCall("record_trade", "", "", 0, Absent, 0, pnl, NoDecision)
                        EXCEPT !.is_closing_trade = is_closing_trade]
    /\ risk_ncalls' = risk_ncalls + 1
    /\ UNCHANGED <<close_args, realized_args, running>>
    /\ RiskFrame

\* a caller replaces limits
UpdateConfig(new_config) ==
    /\ risk_ncalls < MaxRiskCalls
    /\ update_config(new_config)
    /\ risk_call' = RiskCall("update_config", "", "", 0, Absent, 0, 0, NoDecision)
    /\ risk_ncalls' = risk_ncalls + 1
    /\ UNCHANGED riskVars
    /\ UNCHANGED <<close_args, realized_args, running>>
    /\ UNCHANGED <<ncalls, last, create_orders>>
    /\ UNCHANGED diVars
    /\ UNCHANGED taskVars
    /\ UNCHANGED osmVars
    /\ UNCHANGED busVars

\* RiskManager.get_risk_metrics: a caller reads the metrics
GetRiskMetrics ==
    /\ risk_call' = RiskCall("get_risk_metrics", "", "", 0, Absent, 0, daily_pnl, NoDecision)
    /\ UNCHANGED riskVars
    /\ UNCHANGED <<risk_ncalls, close_args, realized_args, running>>
    /\ RiskFrame

(* ======================= OrderStateManager ======================= *)

\* str.lower() on the venue status strings used here
lower(exchange_status) ==
    IF exchange_status = "CLOSED" THEN "closed" ELSE exchange_status

\* OrderStateManager.reconcile_with_exchange: the state a venue status maps
\* to.  The partial-fill test compares the status as given, the table lookup
\* compares it lower-cased; an absent detail reads as None on both sides.
status_mapping(exchange_status, filled, amount) ==
    IF exchange_status = "closed" /\ filled # amount THEN PARTIALLY_FILLED
    ELSE CASE lower(exchange_status) \in {"new", "open"} -> SENT
           [] lower(exchange_status) = "closed" -> FILLED
           [] lower(exchange_status) \in {"canceled", "expired"} -> CANCELED
           [] lower(exchange_status) = "rejected" -> REJECTED
           [] lower(exchange_status) = "failed" -> ERROR
           [] OTHER -> ERROR

\* dict assignment d[k] = v
Put(d, k, v) == [x \in DOMAIN d \cup {k} |-> IF x = k THEN v ELSE d[x]]

\* a call on the OrderStateManager and what it returned
OsmCall(op, order_id, arg, ret) == [op |-> op, order_id |-> order_id, arg |-> arg, ret |-> ret]
NoDetails == [exchange_status |-> "", filled |-> Absent, amount |-> Absent, new_state |-> ""]

\* OrderStateManager.initialize_order: the three dict entries are assigned
\* whether or not the order is known
initialize_order(order_id) ==
    /\ order_states' = Put(order_states, order_id, PENDING)
    /\ order_history' = Put(order_history, order_id, <<PENDING>>)
    /\ retry_attempts' = Put(retry_attempts, order_id, 0)

\* update_state with the history entry replacing the last one
update_state_overwriting(order_id, new_state) ==
    LET known == order_id \in DOMAIN order_states
    IN  /\ order_states' = Put(order_states, order_id, new_state)
        /\ order_history' = Put(order_history, order_id, <<new_state>>)
        /\ retry_attempts' = IF known THEN retry_attempts ELSE Put(retry_attempts, order_id, 0)

\* OrderStateManager.update_state (history entries are kept as their states)
update_state(order_id, new_state) ==
    LET known == order_id \in DOMAIN order_states
        history == IF known THEN order_history[order_id] ELSE <<PENDING>>
    IN  /\ order_states' = Put(order_states, order_id, new_state)
        /\ order_history' = Put(order_history, order_id, Append(history, new_state))
        /\ retry_attempts' = IF known THEN retry_attempts ELSE Put(retry_attempts, order_id, 0)

\* OrderStateManager.reconcile_with_exchange
reconcile_with_exchange(order_id, exchange_status, filled, amount) ==
    update_state(order_id, status_mapping(exchange_status, filled, amount))

\* should_retry that looks at the retry count only
should_retry_any_state(order_id) ==
    /\ order_id \in DOMAIN order_states
    /\ retry_attempts[order_id] < max_retries

\* OrderStateManager.should_retry: the value returned
should_retry(order_id) ==
    /\ order_id \in DOMAIN order_states
    /\ order_states[order_id] \in {ERROR, REJECTED}
    /\ retry_attempts[order_id] < max_retries

\* the history of an order may take one more entry
HasRoom(order_id) ==
    /\ osm_ncalls < MaxOsmCalls
    /\ order_id \in DOMAIN order_history => Len(order_history[order_id]) < MaxOsmCalls

\* the rest of the system during a call on the OrderStateManager
OsmFrame ==
    /\ UNCHANGED omVars
    /\ UNCHANGED riskVars
    /\ UNCHANGED riskCalls
    /\ UNCHANGED riskConfig
    /\ UNCHANGED diVars
    /\ UNCHANGED taskVars
    /\ UNCHANGED busVars

\* a caller initializes an order
InitializeOrder(order_id) ==
    /\ osm_ncalls < MaxOsmCalls
    /\ initialize_order(order_id)
    /\ osm_call' = OsmCall("initialize_order", order_id, NoDetails, "None")
    /\ osm_ncalls' = osm_ncalls + 1
    /\ UNCHANGED retries_granted
    /\ OsmFrame

\* a caller moves an order to new_state
UpdateState(order_id, new_state) ==
    /\ HasRoom(order_id)
    /\ update_state(order_id, new_state)
    /\ osm_call' = OsmCall("update_state", order_id, [NoDetails EXCEPT !.new_state = new_state], "None")
    /\ osm_ncalls' = osm_ncalls + 1
    /\ UNCHANGED retries_granted
    /\ OsmFrame

\* a caller reports the venue's status of an order
ReconcileWithExchange(order_id, exchange_status, filled, amount) ==
    /\ HasRoom(order_id)
    /\ reconcile_with_exchange(order_id, exchange_status, filled, amount)
    /\ osm_call' = OsmCall("reconcile_with_exchange", order_id,
                           [exchange_status |-> exchange_status, filled |-> filled,
                            amount |-> amount, new_state |-> ""], "None")
    /\ osm_ncalls' = osm_ncalls + 1
    /\ UNCHANGED retries_granted
    /\ OsmFrame

\* a caller asks whether to retry an order
ShouldRetry(order_id) ==
    /\ retries_granted[order_id] < MaxGranted
    /\ LET ret == should_retry(order_id)
       IN  /\ retry_attempts' = IF ret THEN [retry_attempts EXCEPT ![order_id] = @ + 1]
                                ELSE retry_attempts
           /\ retries_granted' = IF ret THEN [retries_granted EXCEPT ![order_id] = @ + 1]
                                 ELSE retries_granted
           /\ osm_call' = OsmCall("should_retry", order_id, NoDetails, IF ret THEN "True" ELSE "False")
    /\ UNCHANGED <<order_states, order_history, osm_ncalls>>
    /\ OsmFrame

(* ======================= OrderManager ======================= *)

InSeq(x, s) == \E i \in 1..Len(s) : s[i] = x

\* process_order line 122: order_<uuid4>, fresh for every call
GeneratedKey(c) == 100 + c

\* origin of a call made by application code; a call made by
\* _handle_new_order_event or _handle_cancel_order_event would carry the
\* sequence number of the message handled
Direct == 0

\* the frame of a process_order / cancel_order / get_order_status coroutine:
\* its arguments, its locals, the requests it has sent to the adapter, the
\* events it has published, the topics whose publish raised and, once
\* pc = "done", what it returned
NewFrame(op, key, symbol, side, quantity, price) ==
    [op |-> op, pc |-> "done", was_running |-> running,
     client_key |-> key, order_id |-> key,
     symbol |-> symbol, side |-> side, quantity |-> quantity, price |-> price,
     risk |-> [approved |-> "na", reason |-> ""],
     result |-> NoResult, cancel_result |-> NoResult, ret |-> Pending,
     events |-> <<>>, dropped |-> <<>>, adapter |-> <<>>,
     fill_handled |-> FALSE, origin |-> Direct]

NoCall == NewFrame("none", NoKey, "", "", 0, Absent)

\* process_order, lines 115-125: up to the await on get_account_info
process_order_begin(c, key, symbol, side, quantity, price) ==
    LET f == NewFrame("process_order", key, symbol, side, quantity, price)
    IN  IF ~running
        THEN [f EXCEPT !.ret = RetNone]
        ELSE [f EXCEPT !.order_id = IF key = NoKey THEN GeneratedKey(c) ELSE key,
                       !.pc = "get_account_info",
                       !.adapter = <<"get_account_info">>]

\* process_order with lines 129-139 left out: the order is sent whatever
\* evaluate_order answered
process_order_evaluate_unchecked(f, raised, account_balance) ==
    LET risk_result == evaluate_order(f.symbol, f.side, f.quantity, f.price, account_balance)
    IN  IF raised
        THEN [f EXCEPT !.pc = "publish_error"]
        ELSE [f EXCEPT !.risk = risk_result, !.pc = "create_order",
                       !.adapter = Append(f.adapter, "create_order")]

\* process_order, lines 125-149: get_account_info answers, evaluate_order decides
process_order_evaluate(f, raised, account_balance) ==
    LET risk_result == evaluate_order(f.symbol, f.side, f.quantity, f.price, account_balance)
    IN  IF raised
        THEN [f EXCEPT !.pc = "publish_error"]
        ELSE IF risk_result.approved # "yes"
        THEN [f EXCEPT !.risk = risk_result, !.pc = "publish_rejected"]
        ELSE [f EXCEPT !.risk = risk_result, !.pc = "create_order",
                       !.adapter = Append(f.adapter, "create_order")]

\* process_order, lines 133-139: publish order.rejected, return None
process_order_publish_rejected(f, ok) ==
    IF ok
    THEN [f EXCEPT !.events = Append(f.events, Event("order.rejected", f.order_id, f.risk.reason)),
                   !.pc = "done", !.ret = RetNone]
    ELSE [f EXCEPT !.dropped = Append(f.dropped, "order.rejected"), !.pc = "publish_error"]

\* process_order, lines 143-160: create_order answers
process_order_create_returns(f, result) ==
    CASE result.kind = "raise" -> [f EXCEPT !.result = result, !.pc = "publish_error"]
      [] result.kind = "empty" -> [f EXCEPT !.result = result, !.pc = "done", !.ret = RetNone]
      [] OTHER -> [f EXCEPT !.result = result, !.pc = "publish_created"]

\* process_order, lines 163-170: publish order.created, then fill handling or return
process_order_publish_created(f, ok) ==
    IF ~ok
    THEN [f EXCEPT !.dropped = Append(f.dropped, "order.created"), !.pc = "publish_error"]
    ELSE IF f.result.status \in {"filled", "closed"}
    THEN [f EXCEPT !.events = Append(f.events, Event("order.created", f.order_id, f.result.status)),
                   !.pc = "publish_trade"]
    ELSE [f EXCEPT !.events = Append(f.events, Event("order.created", f.order_id, f.result.status)),
                   !.pc = "done", !.ret = RetResult(f.result)]

\* position_data with the value of a sale counted as money paid out
position_data_signed(f) ==
    LET quantity == IF f.result.filled = Absent THEN f.quantity ELSE f.result.filled
        price == IF f.result.price = Absent THEN f.price ELSE f.result.price
    IN  [symbol |-> f.symbol, side |-> f.side, quantity |-> quantity,
         price |-> price,
         value |-> IF f.side = "buy" THEN quantity * price ELSE 0 - quantity * price]

\* _handle_order_filled, lines 187-207: the trade and the position it describes
position_data(f) ==
    LET quantity == IF f.result.filled = Absent THEN f.quantity ELSE f.result.filled
        price == IF f.result.price = Absent THEN f.price ELSE f.result.price
    IN  [symbol |-> f.symbol, side |-> f.side, quantity |-> quantity,
         price |-> price, value |-> quantity * price]

\* _handle_order_filled with lines 210-216 left out: the trade is published,
\* the RiskManager is not told
handle_order_filled_unrecorded(f, ok) ==
    IF ~ok
    THEN [f EXCEPT !.dropped = Append(f.dropped, "trade.executed"), !.pc = "publish_error"]
    ELSE [f EXCEPT !.events = Append(f.events, Event("trade.executed", f.order_id, "")),
                   !.pc = "done", !.ret = RetResult(f.result)]

\* _handle_order_filled, lines 199-218, and process_order's return (line 170).
\* Without a price in the response and in the intent, line 207 multiplies by
\* None and raises after trade.executed went out.
handle_order_filled(f, ok) ==
    IF ~ok
    THEN [f EXCEPT !.dropped = Append(f.dropped, "trade.executed"), !.pc = "publish_error"]
    ELSE IF position_data(f).price = Absent
    THEN [f EXCEPT !.events = Append(f.events, Event("trade.executed", f.order_id, "")),
                   !.pc = "publish_error"]
    ELSE [f EXCEPT !.events = Append(f.events, Event("trade.executed", f.order_id, "")),
                   !.fill_handled = TRUE,
                   !.pc = "done", !.ret = RetResult(f.result)]

\* process_order, lines 172-182: the except branch publishes order.error
process_order_except(f, ok) ==
    IF ok
    THEN [f EXCEPT !.events = Append(f.events, Event("order.error", f.order_id, "")),
                   !.pc = "done", !.ret = RetNone]
    ELSE [f EXCEPT !.dropped = Append(f.dropped, "order.error"),
                   !.pc = "done", !.ret = RetRaised]

\* get_order_status, lines 284-295: what the coroutine returns for an adapter answer
order_status_of(result) ==
    CASE result.kind = "raise" -> RetError("exception")
      [] result.kind = "empty" -> RetError("Failed to get order status")
      [] OTHER -> RetResult(result)

\* get_order_status, lines 278-284: up to the await on the adapter
get_order_status_begin(order_id) ==
    LET f == NewFrame("get_order_status", order_id, "", "", 0, Absent)
    IN  IF ~running
        THEN [f EXCEPT !.ret = RetError("Order manager not running")]
        ELSE [f EXCEPT !.pc = "get_order_status", !.adapter = <<"get_order_status">>]

\* get_order_status, lines 284-295: the adapter answers
get_order_status_returns(f, result) ==
    [f EXCEPT !.result = result, !.pc = "done", !.ret = order_status_of(result)]

\* cancel_order with the check of lines 230-232 left out
cancel_order_begin_unguarded(order_id) ==
    [NewFrame("cancel_order", order_id, "", "", 0, Absent)
        EXCEPT !.pc = "get_order_status", !.adapter = <<"get_order_status">>]

\* cancel_order, lines 230-236: up to the await inside the nested get_order_status
cancel_order_begin(order_id) ==
    LET f == NewFrame("cancel_order", order_id, "", "", 0, Absent)
    IN  IF ~running
        THEN [f EXCEPT !.ret = RetFalse]
        ELSE [f EXCEPT !.pc = "get_order_status", !.adapter = <<"get_order_status">>]

\* cancel_order, lines 236-249: the status arrives, cancel is refused or sent
cancel_order_status_returns(f, result) ==
    LET order_status == order_status_of(result)
    IN  IF order_status.status = "error"
        THEN [f EXCEPT !.result = result, !.pc = "done", !.ret = RetFalse]
        ELSE IF order_status.status \in {"filled", "canceled", "expired"}
        THEN [f EXCEPT !.result = result, !.pc = "done", !.ret = RetFalse]
        ELSE [f EXCEPT !.result = result, !.pc = "cancel_order",
                       !.adapter = Append(f.adapter, "cancel_order")]

\* cancel_order, lines 249-253 and 264-266: the adapter's cancel answers
cancel_order_cancel_returns(f, result) ==
    IF result.kind \in {"raise", "empty"}
    THEN [f EXCEPT !.cancel_result = result, !.pc = "done", !.ret = RetFalse]
    ELSE [f EXCEPT !.cancel_result = result, !.pc = "publish_canceled"]

\* cancel_order, lines 256-266: publish order.canceled, return True
cancel_order_publish_canceled(f, ok) ==
    IF ok
    THEN [f EXCEPT !.events = Append(f.events, Event("order.canceled", f.order_id, "")),
                   !.pc = "done", !.ret = RetTrue]
    ELSE [f EXCEPT !.dropped = Append(f.dropped, "order.canceled"),
                   !.pc = "done", !.ret = RetFalse]

(* ---------------- what the adapter may answer ---------------- *)
CreateResults ==
    {Answer("raise", "", Absent, Absent, Absent), Answer("empty", "", Absent, Absent, Absent)}
    \cup {Answer("dict", st, Absent, Absent, Absent) : st \in CreateStatuses \ {"filled", "closed"}}
    \cup {Answer("dict", st, q, p, Absent) : st \in {"filled", "closed"}, q \in FillQtys, p \in FillPrices}

StatusResults ==
    {Answer("raise", "", Absent, Absent, Absent), Answer("empty", "", Absent, Absent, Absent)}
    \cup {Answer("dict", st, Absent, Absent, Absent) : st \in VenueStatuses \ {"closed"}}
    \cup {Answer("dict", "closed", q, Absent, a) : q \in {1, 2}, a \in FullAmount}

CancelResults ==
    {Answer("raise", "", Absent, Absent, Absent), Answer("empty", "", Absent, Absent, Absent)}
    \cup {Answer("dict", st, Absent, Absent, Absent) : st \in {"canceled", "error"}}

(* ---------------- the calls, from invocation to return ---------------- *)

\* the coroutine returns: its frame is kept, its effects are applied
Completed(f) ==
    /\ f.pc = "done"
    /\ last' = f
    /\ ncalls' = ncalls + 1
    /\ create_orders' =
          IF InSeq("create_order", f.adapter) /\ f.client_key \in ClientKeys
          THEN [create_orders EXCEPT ![f.client_key] = @ + 1]
          ELSE create_orders
    /\ IF f.fill_handled
       THEN IF f.side = "buy"
            THEN record_position_open(position_data(f))
            ELSE record_position_close(f.symbol, position_data(f).value)
       ELSE UNCHANGED riskVars
    /\ UNCHANGED riskCalls
    /\ UNCHANGED riskConfig
    /\ UNCHANGED diVars
    /\ UNCHANGED taskVars
    /\ UNCHANGED running
    /\ UNCHANGED osmVars
    /\ UNCHANGED busVars

\* process_order's except branch, run to the return
Excepted(f) == \E ok \in BOOLEAN : Completed(process_order_except(f, ok))

\* process_order after order.created was attempted
AfterCreated(f) ==
    CASE f.pc = "publish_trade" ->
            \E ok \in BOOLEAN :
               LET g == handle_order_filled(f, ok)
               IN  IF g.pc = "publish_error" THEN Excepted(g) ELSE Completed(g)
      [] f.pc = "publish_error" -> Excepted(f)
      [] OTHER -> Completed(f)

\* process_order after evaluate_order decided
AfterEvaluate(f) ==
    CASE f.pc = "publish_rejected" ->
            \E ok \in BOOLEAN :
               LET g == process_order_publish_rejected(f, ok)
               IN  IF g.pc = "publish_error" THEN Excepted(g) ELSE Completed(g)
      [] f.pc = "create_order" ->
            \E result \in CreateResults :
               LET g == process_order_create_returns(f, result)
               IN  CASE g.pc = "publish_created" ->
                          \E ok \in BOOLEAN : AfterCreated(process_order_publish_created(g, ok))
                     [] g.pc = "publish_error" -> Excepted(g)
                     [] OTHER -> Completed(g)
      [] OTHER -> Excepted(f)

\* OrderManager.process_order
process_order(key, symbol, side, quantity, price) ==
    /\ ncalls < MaxCalls
    /\ LET f == process_order_begin(ncalls + 1, key, symbol, side, quantity, price)
       IN  IF f.pc = "done"
           THEN Completed(f)
           ELSE \E raised \in BOOLEAN, account_balance \in Balances :
                   AfterEvaluate(process_order_evaluate(f, raised, account_balance))

\* OrderManager.get_order_status
get_order_status(order_id) ==
    /\ ncalls < MaxCalls
    /\ LET f == get_order_status_begin(order_id)
       IN  IF f.pc = "done"
           THEN Completed(f)
           ELSE \E result \in StatusResults : Completed(get_order_status_returns(f, result))

\* OrderManager.cancel_order
cancel_order(order_id) ==
    /\ ncalls < MaxCalls
    /\ LET f == cancel_order_begin(order_id)
       IN  IF f.pc = "done"
           THEN Completed(f)
           ELSE \E result \in StatusResults :
                   LET g == cancel_order_status_returns(f, result)
                   IN  IF g.pc = "done"
                       THEN Completed(g)
                       ELSE \E answer \in CancelResults :
                               LET h == cancel_order_cancel_returns(g, answer)
                               IN  IF h.pc = "done"
                                   THEN Completed(h)
                                   ELSE \E ok \in BOOLEAN :
                                           Completed(cancel_order_publish_canceled(h, ok))

\* OrderManager.start
start ==
    /\ ~running
    /\ running' = TRUE
    /\ UNCHANGED <<ncalls, last, create_orders>>
    /\ UNCHANGED riskVars
    /\ UNCHANGED riskCalls
    /\ UNCHANGED riskConfig
    /\ UNCHANGED diVars
    /\ UNCHANGED taskVars
    /\ UNCHANGED osmVars
    /\ UNCHANGED busVars

\* OrderManager.stop
stop ==
    /\ running
    /\ running' = FALSE
    /\ UNCHANGED <<ncalls, last, create_orders>>
    /\ UNCHANGED riskVars
    /\ UNCHANGED riskCalls
    /\ UNCHANGED riskConfig
    /\ UNCHANGED diVars
    /\ UNCHANGED taskVars
    /\ UNCHANGED osmVars
    /\ UNCHANGED busVars

(* ---------------- the calls as concurrent asyncio tasks ---------------- *)
\* A coroutine gives up control at each await on the adapter or the event
\* bus, and only there: the code between two awaits runs in one piece.  The
\* awaits on the RiskManager never suspend, its coroutines await nothing.

\* what the adapter answers to the tasks: the balance, the answers to
\* create_order that carry no fill details of their own, the status reports
\* that carry no amounts
TaskBalances == {500, 1000}
TaskCreateResults == {result \in CreateResults : result.filled = Absent /\ result.price = Absent}
TaskStatusResults == {result \in StatusResults : result.filled = Absent}

\* the rest of the system while a task runs from one await to the next
TaskFrame ==
    /\ UNCHANGED omVars
    /\ UNCHANGED riskCalls
    /\ UNCHANGED riskConfig
    /\ UNCHANGED diVars
    /\ UNCHANGED osmVars
    /\ UNCHANGED busVars

\* a task is created for process_order and runs to its first await
spawn_process_order(t, key, symbol, side, quantity, price) ==
    /\ t \notin DOMAIN tasks
    /\ tasks' = Put(tasks, t, process_order_begin(t, key, symbol, side, quantity, price))
    /\ UNCHANGED riskVars
    /\ TaskFrame

\* a task is created for cancel_order and runs to its first await
spawn_cancel_order(t, order_id) ==
    /\ t \notin DOMAIN tasks
    /\ tasks' = Put(tasks, t, cancel_order_begin(order_id))
    /\ UNCHANGED riskVars
    /\ TaskFrame

\* what a suspended task does when the await it waits on completes, up to
\* its next await or its return
Resumed(f) ==
    CASE f.op = "process_order" /\ f.pc = "get_account_info" ->
            {process_order_evaluate(f, raised, account_balance) :
                raised \in BOOLEAN, account_balance \in TaskBalances}
      [] f.op = "process_order" /\ f.pc = "create_order" ->
            {process_order_create_returns(f, result) : result \in TaskCreateResults}
      [] f.op = "process_order" /\ f.pc = "publish_created" ->
            {process_order_publish_created(f, ok) : ok \in BOOLEAN}
      [] f.op = "process_order" /\ f.pc = "publish_trade" ->
            {handle_order_filled(f, ok) : ok \in BOOLEAN}
      [] f.op = "process_order" /\ f.pc = "publish_rejected" ->
            {process_order_publish_rejected(f, ok) : ok \in BOOLEAN}
      [] f.op = "process_order" /\ f.pc = "publish_error" ->
            {process_order_except(f, ok) : ok \in BOOLEAN}
      [] f.op = "cancel_order" /\ f.pc = "get_order_status" ->
            {cancel_order_status_returns(f, result) : result \in TaskStatusResults}
      [] f.op = "cancel_order" /\ f.pc = "cancel_order" ->
            {cancel_order_cancel_returns(f, answer) : answer \in CancelResults}
      [] f.op = "cancel_order" /\ f.pc = "publish_canceled" ->
            {cancel_order_publish_canceled(f, ok) : ok \in BOOLEAN}
      [] OTHER -> {}

\* the event loop resumes a suspended task; _handle_order_filled tells the
\* RiskManager in the same piece of code that follows the trade.executed
\* publish
resume(t) ==
    /\ t \in DOMAIN tasks
    /\ tasks[t].pc # "done"
    /\ \E g \in Resumed(tasks[t]) :
          /\ tasks' = [tasks EXCEPT ![t] = g]
          /\ IF g.fill_handled /\ ~tasks[t].fill_handled
             THEN IF g.side = "buy"
                  THEN record_position_open(position_data(g))
                  ELSE record_position_close(g.symbol, position_data(g).value)
             ELSE UNCHANGED riskVars
    /\ TaskFrame

(* ======================= EventBus ======================= *)
\* OrderManager.__init__ (line 67) calls _setup_event_subscriptions() without
\* awaiting it: the coroutine object is dropped and its body never runs, so
\* the manager subscribes to nothing.  EventBus keeps no handler table
\* either: subscribe() takes a channel only, and listen() yields to whoever
\* iterates it.  No code hands a message to _handle_new_order_event or
\* _handle_cancel_order_event.

\* EventBus.subscribe(channel), by a consumer holding the bus
subscribe(channel) ==
    /\ channel \notin pubsub_channels
    /\ pubsub_channels' = pubsub_channels \cup {channel}
    /\ subscribed_at' = [c \in DOMAIN subscribed_at \cup {channel} |->
                            IF c = channel THEN Len(published) ELSE subscribed_at[c]]
    /\ UNCHANGED <<bus_queue, published, yielded, mock_events>>
    /\ UNCHANGED omVars
    /\ UNCHANGED riskVars
    /\ UNCHANGED riskCalls
    /\ UNCHANGED riskConfig
    /\ UNCHANGED diVars
    /\ UNCHANGED taskVars
    /\ UNCHANGED osmVars

\* publish on a bus that keeps the message for channels subscribed later
publish_retaining(channel, order_id) ==
    /\ Len(published) < MaxMsgs
    /\ LET message == [channel |-> channel, order_id |-> order_id, seq |-> Len(published) + 1]
       IN  /\ published' = Append(published, message)
           /\ bus_queue' = Append(bus_queue, message)
    /\ UNCHANGED <<pubsub_channels, yielded, subscribed_at, mock_events>>
    /\ UNCHANGED omVars
    /\ UNCHANGED riskVars
    /\ UNCHANGED riskCalls
    /\ UNCHANGED riskConfig
    /\ UNCHANGED diVars
    /\ UNCHANGED taskVars
    /\ UNCHANGED osmVars

\* EventBus.publish(channel, message) by a strategy; Redis hands the message
\* to the pubsub connections subscribed at that moment and keeps nothing
publish(channel, order_id) ==
    /\ Len(published) < MaxMsgs
    /\ LET message == [channel |-> channel, order_id |-> order_id, seq |-> Len(published) + 1]
       IN  /\ published' = Append(published, message)
           /\ bus_queue' = IF channel \in pubsub_channels
                           THEN Append(bus_queue, message) ELSE bus_queue
    /\ UNCHANGED <<pubsub_channels, yielded, subscribed_at, mock_events>>
    /\ UNCHANGED omVars
    /\ UNCHANGED riskVars
    /\ UNCHANGED riskCalls
    /\ UNCHANGED riskConfig
    /\ UNCHANGED diVars
    /\ UNCHANGED taskVars
    /\ UNCHANGED osmVars

\* EventBus.listen: get_message, yield
listen ==
    /\ bus_queue # <<>>
    /\ yielded' = Append(yielded, Head(bus_queue))
    /\ bus_queue' = Tail(bus_queue)
    /\ UNCHANGED <<pubsub_channels, published, subscribed_at, mock_events>>
    /\ UNCHANGED omVars
    /\ UNCHANGED riskVars
    /\ UNCHANGED riskCalls
    /\ UNCHANGED riskConfig
    /\ UNCHANGED diVars
    /\ UNCHANGED taskVars
    /\ UNCHANGED osmVars

(* ======================= MockEventBus ======================= *)

\* the events held by a MockEventBus, over all event types
MockStored ==
    LET RECURSIVE Sum(_)
        Sum(T) == IF T = {} THEN 0
                  ELSE LET t == CHOOSE x \in T : TRUE
                       IN  Len(mock_events[t]) + Sum(T \ {t})
    IN  Sum(DOMAIN mock_events)

\* MockEventBus.get_events(event_type)
get_events(event_type) ==
    IF event_type \in DOMAIN mock_events THEN mock_events[event_type] ELSE <<>>

\* MockEventBus.publish / publish_sync: the data joins the list of its type;
\* nobody is subscribed, a reader asks with get_events
mock_publish(event_type, order_id) ==
    /\ MockStored < MaxMsgs
    /\ mock_events' = [t \in DOMAIN mock_events \cup {event_type} |->
                          IF t = event_type
                          THEN Append(get_events(t), [order_id |-> order_id, seq |-> MockStored + 1])
                          ELSE mock_events[t]]
    /\ UNCHANGED <<pubsub_channels, bus_queue, published, yielded, subscribed_at>>
    /\ UNCHANGED omVars
    /\ UNCHANGED riskVars
    /\ UNCHANGED riskCalls
    /\ UNCHANGED riskConfig
    /\ UNCHANGED diVars
    /\ UNCHANGED taskVars
    /\ UNCHANGED osmVars

\* MockEventBus.reset_events
reset_events ==
    /\ mock_events' = EmptyMap
    /\ UNCHANGED <<pubsub_channels, bus_queue, published, yielded, subscribed_at>>
    /\ UNCHANGED omVars
    /\ UNCHANGED riskVars
    /\ UNCHANGED riskCalls
    /\ UNCHANGED riskConfig
    /\ UNCHANGED diVars
    /\ UNCHANGED taskVars
    /\ UNCHANGED osmVars

(* ======================= DIContainer ======================= *)

\* a call made on the DIContainer and its outcome: the instance returned
\* (Absent when nothing is returned) and the exception raised ("" for none)
DiCall(op, name, ret, raised) == [op |-> op, name |-> name, ret |-> ret, raised |-> raised]

\* the rest of the system during a call on the DIContainer
DiFrame ==
    /\ di_ncalls < MaxDiCalls
    /\ di_ncalls' = di_ncalls + 1
    /\ UNCHANGED omVars
    /\ UNCHANGED riskVars
    /\ UNCHANGED riskCalls
    /\ UNCHANGED riskConfig
    /\ UNCHANGED osmVars
    /\ UNCHANGED busVars
    /\ UNCHANGED taskVars

\* DIContainer.register and DIContainer.register_instance: the component is
\* stored under the name
register(name, component) ==
    /\ components' = Put(components, name, component)
    /\ di_call' = DiCall("register", name, Absent, "")
    /\ UNCHANGED <<factories, made, factory_calls>>
    /\ DiFrame

\* DIContainer.register_factory
register_factory(name, factory, is_singleton) ==
    /\ factories' = Put(factories, name, [factory |-> factory, is_singleton |-> is_singleton])
    /\ factory_calls' = Put(factory_calls, name, 0)
    /\ di_call' = DiCall("register_factory", name, Absent, "")
    /\ UNCHANGED <<components, made>>
    /\ DiFrame

\* DIContainer.get: a stored component comes first; otherwise the factory is
\* called without arguments, which raises TypeError for a factory that has a
\* required parameter, and the instance of a singleton is stored
get(name) ==
    /\ IF name \in DOMAIN components
       THEN /\ di_call' = DiCall("get", name, components[name], "")
            /\ UNCHANGED <<components, made, factory_calls>>
       ELSE IF name \notin DOMAIN factories
       THEN /\ di_call' = DiCall("get", name, Absent, "KeyError")
            /\ UNCHANGED <<components, made, factory_calls>>
       ELSE /\ factory_calls' = Put(factory_calls, name, factory_calls[name] + 1)
            /\ IF factories[name].factory = "required parameter"
               THEN /\ di_call' = DiCall("get", name, Absent, "TypeError")
                    /\ UNCHANGED <<components, made>>
               ELSE /\ made' = made + 1
                    /\ di_call' = DiCall("get", name, made + 1, "")
                    /\ components' = IF factories[name].is_singleton
                                      THEN Put(components, name, made + 1)
                                      ELSE components
    /\ UNCHANGED factories
    /\ DiFrame

(* ======================= the system ======================= *)

\* the state after construction: OrderManager.__init__, RiskManager.__init__,
\* OrderStateManager.__init__, EventBus.__init__
Init ==
    /\ running = FALSE
    /\ ncalls = 0
    /\ last = NoCall
    /\ create_orders = [k \in ClientKeys |-> 0]
    /\ open_positions = EmptyMap
    /\ daily_pnl = 0
    /\ daily_trades = 0
    /\ limits = [max_position_size |-> max_position_size, max_daily_loss |-> max_daily_loss,
                 max_open_positions |-> max_open_positions,
                 max_exposure_per_asset |-> max_exposure_per_asset]
    /\ risk_call = RiskCall("none", "", "", 0, Absent, 0, 0, NoDecision)
    /\ risk_ncalls = 0
    /\ close_args = 0
    /\ realized_args = 0
    /\ order_states = EmptyMap
    /\ order_history = EmptyMap
    /\ retry_attempts = EmptyMap
    /\ osm_call = OsmCall("none", 0, NoDetails, "None")
    /\ osm_ncalls = 0
    /\ retries_granted = [k \in OrderIds |-> 0]
    /\ pubsub_channels = {}
    /\ bus_queue = <<>>
    /\ published = <<>>
    /\ yielded = <<>>
    /\ subscribed_at = EmptyMap
    /\ mock_events = EmptyMap
    /\ components = EmptyMap
    /\ factories = EmptyMap
    /\ made = 0
    /\ factory_calls = EmptyMap
    /\ di_call = DiCall("none", "", Absent, "")
    /\ di_ncalls = 0
    /\ tasks = EmptyMap

\* the order pipeline: direct calls to the OrderManager and the daily reset
Next ==
    \/ start
    \/ stop
    \/ \E key \in {NoKey} \cup ClientKeys, symbol \in Symbols, side \in Sides,
          quantity \in Quantities, price \in Prices :
          process_order(key, symbol, side, quantity, price)
    \/ \E order_id \in ClientKeys : get_order_status(order_id)
    \/ \E order_id \in ClientKeys : cancel_order(order_id)
    \/ reset_daily_metrics

Spec == Init /\ [][Next]_vars

\* the event bus with the started OrderManager attached to it
BusNext ==
    \/ start
    \/ stop
    \/ \E channel \in BusTopics : subscribe(channel)
    \/ \E channel \in BusTopics, order_id \in {NoKey} \cup ClientKeys : publish(channel, order_id)
    \/ listen
    \/ \E event_type \in BusTopics, order_id \in {NoKey} \cup ClientKeys : mock_publish(event_type, order_id)
    \/ reset_events

BusSpec == Init /\ [][BusNext]_vars

\* listen() is a loop that polls every 10 ms: a waiting message is read;
\* create_order_manager starts the manager right after constructing it
FairBusSpec == BusSpec /\ WF_vars(listen) /\ WF_vars(start)

\* the RiskManager called directly, as its own component, next to a manager
\* that is started and stopped
RiskNext ==
    \/ start
    \/ stop
    \/ \E symbol \in Symbols, side \in Sides, quantity \in Quantities, price \in Prices,
          account_balance \in EvalBalances :
          EvaluateOrder(symbol, side, quantity, price, account_balance)
    \/ \E symbol \in Symbols, quantity \in OpenQuantities, price \in OpenPrices :
          RecordPositionOpen(symbol, quantity, price)
    \/ \E symbol \in Symbols, pnl \in Pnls : RecordPositionClose(symbol, pnl)
    \/ \E is_closing_trade \in BOOLEAN, pnl \in TradePnls : RecordTrade(is_closing_trade, pnl)
    \/ \E new_config \in NewConfigs : UpdateConfig(new_config)
    \/ GetRiskMetrics
    \/ reset_daily_metrics

RiskSpec == Init /\ [][RiskNext]_vars

\* the DIContainer, used by the code that wires the application
DiNext ==
    \/ \E name \in ComponentNames, component \in Instances : register(name, component)
    \/ \E name \in ComponentNames, factory \in Factories, is_singleton \in BOOLEAN :
          register_factory(name, factory, is_singleton)
    \/ \E name \in ComponentNames : get(name)

DiSpec == Init /\ [][DiNext]_vars

\* the OrderManager with its calls run as concurrent tasks
TaskNext ==
    \/ start
    \/ stop
    \/ \E t \in 1..MaxTasks, symbol \in Symbols, side \in Sides,
          quantity \in Quantities, price \in Prices \ {Absent} :
          spawn_process_order(t, NoKey, symbol, side, quantity, price)
    \/ \E t \in 1..MaxTasks, order_id \in ClientKeys : spawn_cancel_order(t, order_id)
    \/ \E t \in 1..MaxTasks : resume(t)

TaskSpec == Init /\ [][TaskNext]_vars

\* the OrderStateManager called directly, as its own component
OsmNext ==
    \/ \E order_id \in OrderIds : InitializeOrder(order_id)
    \/ \E order_id \in OrderIds, new_state \in OrderState : UpdateState(order_id, new_state)
    \/ \E order_id \in OrderIds, exchange_status \in ExchangeStatuses :
          \E filled \in (IF lower(exchange_status) = "closed" THEN DetailFilled ELSE {Absent}),
             amount \in (IF lower(exchange_status) = "closed" THEN DetailAmount ELSE {Absent}) :
             ReconcileWithExchange(order_id, exchange_status, filled, amount)
    \/ \E order_id \in OrderIds : ShouldRetry(order_id)

OsmSpec == Init /\ [][OsmNext]_vars

(* ======================= properties ======================= *)

Topics(events) == [i \in 1..Len(events) |-> events[i].topic]
Count(topic, events) == Cardinality({i \in 1..Len(events) : events[i].topic = topic})
Sent(request, f) == InSeq(request, f.adapter)

\* the adapter's create_order failed: it raised, answered nothing, or
\* answered a result with status "error"
CreateFailed(f) ==
    /\ Sent("create_order", f)
    /\ \/ f.result.kind \in {"raise", "empty"}
       \/ f.result.kind = "dict" /\ f.result.status = "error"

\* the adapter's create_order answered a result that is no error
CreateSucceeded(f) ==
    /\ Sent("create_order", f)
    /\ f.result.kind = "dict" /\ f.result.status # "error"

C2_StoppedCallsFail ==
    (last.op # "none" /\ ~last.was_running) =>
        /\ last.adapter = <<>>
        /\ last.events = <<>> /\ last.dropped = <<>>
        /\ last.op = "process_order" => last.ret = RetNone
        /\ last.op = "cancel_order" => last.ret = RetFalse
        /\ last.op = "get_order_status" => last.ret = RetError("Order manager not running")

\* a cancel arrives after stop(): a position opened while running is there
C2_Witness ==
    /\ last.op = "cancel_order" /\ ~last.was_running /\ ~running
    /\ DOMAIN open_positions # {}
    /\ last.ret = RetFalse

(* ---------------- C3 ---------------- *)
\* C3, as stated: when the adapter's create_order fails (raises, answers
\* nothing, or answers status "error"), process_order publishes order.error,
\* publishes neither order.created nor trade.executed, leaves the
\* RiskManager alone and returns None.  (Stated for calls in which no
\* publish raised.)
C3_Original ==
    (last.op = "process_order" /\ CreateFailed(last) /\ last.dropped = <<>>) =>
        /\ Count("order.error", last.events) >= 1
        /\ Count("order.created", last.events) = 0
        /\ Count("trade.executed", last.events) = 0
        /\ ~last.fill_handled
        /\ last.ret = RetNone

(* ---------------- C4 ---------------- *)
\* the outcome of a process_order call in which every publish went through
Outcome(f) ==
    IF f.op # "process_order" \/ ~f.was_running \/ f.dropped # <<>> THEN "other"
    ELSE IF f.risk.approved = "no" THEN "rejected by risk"
    ELSE IF CreateFailed(f) THEN "failed at venue"
    ELSE IF CreateSucceeded(f) THEN "succeeded"
    ELSE "other"

\* C4, as stated: two process_order calls with different outcomes among
\* "rejected by risk", "failed at venue" and "succeeded" never return the
\* same value.
C4_Original ==
    [][(/\ Outcome(last) # "other"
        /\ Outcome(last') # "other"
        /\ Outcome(last) # Outcome(last'))
       => last.ret # last'.ret]_vars

(* ---------------- C5 ---------------- *)
\* C5, as stated: over all process_order calls carrying the client order key
\* k, at most one create_order request is sent.
C5_Original == \A k \in ClientKeys : create_orders[k] <= 1

(* ---------------- C6 ---------------- *)
\* C6, as stated: after a process_order that returned the venue response the
\* history of the order is PENDING, SENT and then the state the response
\* indicates; after a get_order_status with a non-error result the order's
\* current state is the one the venue status reconciles to.
C6_Original ==
    /\ (last.op = "process_order" /\ last.ret.tag = "result") =>
          /\ last.order_id \in DOMAIN order_history
          /\ Len(order_history[last.order_id]) = 3
          /\ order_history[last.order_id][1] = PENDING
          /\ order_history[last.order_id][2] = SENT
    /\ (last.op = "get_order_status" /\ last.ret.tag = "result" /\ last.ret.status # "error") =>
          /\ last.order_id \in DOMAIN order_states
          /\ order_states[last.order_id] =
                status_mapping(last.result.status, last.result.filled, last.result.amount)

(* ---------------- C7 ---------------- *)
\* an approved buy whose create_order response reports an immediate fill
ImmediateFill(f) ==
    /\ f.op = "process_order" /\ f.side = "buy" /\ f.risk.approved = "yes"
    /\ f.result.kind = "dict" /\ f.result.status \in {"filled", "closed"}

\* C7: for an approved buy filled at once, trade.executed is never published
\* without order.created before it, and when process_order returns the venue
\* response, order.created and trade.executed have been published in that
\* order and record_position_open has put the position of that symbol into
\* the RiskManager.
C7_FillHandledBeforeReturn ==
    ImmediateFill(last) =>
        /\ \A j \in 1..Len(last.events) :
              last.events[j].topic = "trade.executed" =>
                 \E i \in 1..(j - 1) : last.events[i].topic = "order.created"
        /\ last.ret.tag = "result" =>
              /\ last.ret = RetResult(last.result)
              /\ Topics(last.events) = <<"order.created", "trade.executed">>
              /\ last.fill_handled
              /\ last.symbol \in DOMAIN open_positions
              /\ open_positions[last.symbol] = position_data(last)

\* a buy is filled at once at the venue's price and process_order returned
C7_Witness ==
    /\ ImmediateFill(last)
    /\ last.ret.tag = "result"
    /\ last.result.price = 90
    /\ last.symbol \in DOMAIN open_positions

(* ---------------- C8 ---------------- *)
\* the states reconcile_with_exchange treats as final
Terminal == {FILLED, CANCELED, REJECTED}

\* C8, as stated: when the venue status of the order reconciles to FILLED,
\* CANCELED or REJECTED, cancel_order returns False, sends no cancel_order
\* to the adapter and publishes no order.canceled.
C8_Original ==
    (/\ last.op = "cancel_order" /\ last.result.kind = "dict"
     /\ status_mapping(last.result.status, last.result.filled, last.result.amount) \in Terminal)
    => /\ last.ret = RetFalse
       /\ ~Sent("cancel_order", last)
       /\ Count("order.canceled", last.events) = 0

(* ---------------- C9 ---------------- *)
\* the adapter's cancel_order failed: it raised, answered a falsy value, or
\* answered a result with status "error"
CancelFailed(f) ==
    /\ Sent("cancel_order", f)
    /\ \/ f.cancel_result.kind \in {"raise", "empty"}
       \/ f.cancel_result.kind = "dict" /\ f.cancel_result.status = "error"

\* C9, as stated: cancel_order returns True or publishes order.canceled only
\* if the adapter's cancel succeeded; when it failed, cancel_order returns
\* False, publishes no order.canceled and has asked the adapter once.
C9_Original ==
    last.op = "cancel_order" =>
        /\ (last.ret = RetTrue \/ Count("order.canceled", last.events) > 0) => ~CancelFailed(last)
        /\ CancelFailed(last) =>
              /\ last.ret = RetFalse
              /\ Count("order.canceled", last.events) = 0
              /\ Cardinality({i \in 1..Len(last.adapter) : last.adapter[i] = "cancel_order"}) = 1

(* ---------------- C10 ---------------- *)
\* message number i has been read from the bus by listen
Delivered(i) == \E j \in 1..Len(yielded) : yielded[j].seq = i

\* C10, as stated: with the manager running, every order.new message the
\* bus has delivered is eventually passed to process_order, and every
\* delivered order.cancel message that carries an order_id is eventually
\* passed to cancel_order.
C10_Original ==
    \A i \in 1..MaxMsgs :
        /\ [](( /\ running /\ Delivered(i)
                /\ published[i].channel = "order.new")
              => <>(last.op = "process_order" /\ last.origin = i))
        /\ [](( /\ running /\ Delivered(i)
                /\ published[i].channel = "order.cancel" /\ published[i].order_id # NoKey)
              => <>(last.op = "cancel_order" /\ last.origin = i))

(* ---------------- C11 ---------------- *)
\* C11, as stated: in the history of every order, no entry that follows a
\* FILLED, CANCELED or REJECTED entry has a state outside these three.
C11_Original ==
    \A k \in DOMAIN order_history :
        \A i \in 1..Len(order_history[k]) : \A j \in (i + 1)..Len(order_history[k]) :
            order_history[k][i] \in Terminal => order_history[k][j] \in Terminal

(* ---------------- C12 ---------------- *)
\* the step is an update_state or reconcile_with_exchange call
TransitionStep ==
    /\ osm_ncalls' = osm_ncalls + 1
    /\ osm_call'.op \in {"update_state", "reconcile_with_exchange"}

\* the three records of order k are the same before and after the step
SameRecord(k) ==
    /\ (k \in DOMAIN order_states') = (k \in DOMAIN order_states)
    /\ (k \in DOMAIN order_history') = (k \in DOMAIN order_history)
    /\ (k \in DOMAIN retry_attempts') = (k \in DOMAIN retry_attempts)
    /\ k \in DOMAIN order_states => order_states'[k] = order_states[k]
    /\ k \in DOMAIN order_history => order_history'[k] = order_history[k]
    /\ k \in DOMAIN retry_attempts => retry_attempts'[k] = retry_attempts[k]

\* C12: an update_state or reconcile_with_exchange call on order k keeps the
\* earlier history entries of k and appends one entry, whose state is k's
\* current state afterwards (for update_state, the state asked for); an
\* unknown k ends with history <<PENDING, new state>> and retry count 0; the
\* records of the other orders are unchanged.
C12_TransitionAppends ==
    [][TransitionStep =>
         LET k == osm_call'.order_id
             known == k \in DOMAIN order_history
             old == IF known THEN order_history[k] ELSE <<PENDING>>
         IN  /\ k \in DOMAIN order_history' /\ k \in DOMAIN order_states'
             /\ Len(order_history'[k]) = Len(old) + 1
             /\ SubSeq(order_history'[k], 1, Len(old)) = old
             /\ order_states'[k] = order_history'[k][Len(old) + 1]
             /\ osm_call'.op = "update_state" => order_states'[k] = osm_call'.arg.new_state
             /\ ~known => /\ order_history'[k] = <<PENDING, order_states'[k]>>
                          /\ retry_attempts'[k] = 0
             /\ \A j \in OrderIds \ {k} : SameRecord(j)]_vars

\* an order has had two transitions while the other order has a record too
C12_Witness ==
    /\ osm_call.op \in {"update_state", "reconcile_with_exchange"}
    /\ DOMAIN order_history = OrderIds
    /\ Len(order_history[osm_call.order_id]) = 3

(* ---------------- C13 ---------------- *)
\* C13, as stated: initialize_order on an order that has a record leaves its
\* current state, its history and its retry count as they were.
C13_Original ==
    [][(/\ osm_ncalls' = osm_ncalls + 1
        /\ osm_call'.op = "initialize_order"
        /\ osm_call'.order_id \in DOMAIN order_states)
       => SameRecord(osm_call'.order_id)]_vars

(* ---------------- C14 ---------------- *)
\* C14, as stated: should_retry returns True at most max_retries times in
\* total for an order, and only while the order is in ERROR or REJECTED.
C14_Original ==
    /\ \A k \in OrderIds : retries_granted[k] <= max_retries
    /\ (osm_call.op = "should_retry" /\ osm_call.ret = "True") =>
          order_states[osm_call.order_id] \in {ERROR, REJECTED}

(* ---------------- C15 ---------------- *)
\* the step is a should_retry call
ShouldRetryStep ==
    /\ osm_ncalls' = osm_ncalls
    /\ osm_call'.op = "should_retry"

\* C15: a should_retry call on order k returns True exactly when k has a
\* record, is in ERROR or REJECTED and has used fewer than max_retries
\* retries; it adds one to k's retry count when it returns True and changes
\* no retry count when it returns False; it changes no state and no history
\* and creates no record.  update_state and reconcile_with_exchange leave the
\* retry count of a known order alone, and the count never passes
\* max_retries, so an order whose count has reached it is refused from then
\* on.
C15_RetryConsumesToken ==
    [][/\ ShouldRetryStep =>
            LET k == osm_call'.order_id
                may == /\ k \in DOMAIN order_states
                       /\ order_states[k] \in {ERROR, REJECTED}
                       /\ retry_attempts[k] < max_retries
            IN  /\ (osm_call'.ret = "True") = may
                /\ osm_call'.ret \in {"True", "False"}
                /\ order_states' = order_states
                /\ order_history' = order_history
                /\ DOMAIN retry_attempts' = DOMAIN retry_attempts
                /\ \A j \in DOMAIN retry_attempts :
                      retry_attempts'[j] =
                         IF j = k /\ osm_call'.ret = "True"
                         THEN retry_attempts[j] + 1 ELSE retry_attempts[j]
       /\ TransitionStep =>
            \A j \in DOMAIN retry_attempts : retry_attempts'[j] = retry_attempts[j]
       /\ \A j \in DOMAIN retry_attempts' : retry_attempts'[j] <= max_retries]_vars

\* an order in ERROR has been granted max_retries retries and is then refused
C15_Witness ==
    /\ osm_call.op = "should_retry" /\ osm_call.ret = "False"
    /\ osm_call.order_id \in DOMAIN order_states
    /\ order_states[osm_call.order_id] = ERROR
    /\ retry_attempts[osm_call.order_id] = max_retries
    /\ retries_granted[osm_call.order_id] = max_retries

(* ---------------- C16 ---------------- *)
\* the mapping of the claim, read without regard to the case of the status
ClaimedState(exchange_status, filled, amount) ==
    CASE lower(exchange_status) \in {"new", "open"} -> SENT
      [] lower(exchange_status) = "closed" /\ filled = amount -> FILLED
      [] lower(exchange_status) = "closed" /\ filled # amount -> PARTIALLY_FILLED
      [] lower(exchange_status) \in {"canceled", "expired"} -> CANCELED
      [] lower(exchange_status) = "rejected" -> REJECTED
      [] OTHER -> ERROR

\* C16, as stated: after reconcile_with_exchange the order is in the state
\* the mapping gives for the venue status and its details.
C16_Original ==
    osm_call.op = "reconcile_with_exchange" =>
        order_states[osm_call.order_id] =
            ClaimedState(osm_call.arg.exchange_status, osm_call.arg.filled, osm_call.arg.amount)

(* ---------------- C17 ---------------- *)
\* C17: evaluate_order called with an account balance that is zero or
\* negative, or with an order whose value is a larger share of the balance
\* than max_position_size, answers approved = False with the position size
\* reason, whatever positions are open and whatever the daily P&L is.
C17_PositionSizeLimit ==
    (/\ risk_call.op = "evaluate_order"
     /\ \/ risk_call.account_balance <= 0
        \/ risk_call.quantity * risk_call.price * 100 > limits.max_position_size * risk_call.account_balance)
    => /\ risk_call.approved = "no"
       /\ risk_call.reason = "position size exceeds maximum"

\* an order worth 6% of the balance was evaluated while a position was open
C17_Witness ==
    /\ risk_call.op = "evaluate_order"
    /\ risk_call.account_balance = 500 /\ risk_call.price = 30
    /\ risk_call.approved = "no"
    /\ DOMAIN open_positions # {}

(* ---------------- C18 ---------------- *)
\* the step is an evaluate_order call
EvaluateStep == risk_call' # risk_call /\ risk_call'.op = "evaluate_order"

\* C18, as stated: evaluate_order answers approved = False for a buy or a
\* sell whenever the value of the open position in the order's symbol plus
\* the value of the order is a larger share of the balance than
\* max_exposure_per_asset.
C18_Original ==
    [][(/\ EvaluateStep
        /\ risk_call'.account_balance > 0
        /\ (CurrentExposure(risk_call'.symbol) + risk_call'.quantity * risk_call'.price) * 100
              > limits.max_exposure_per_asset * risk_call'.account_balance)
       => risk_call'.approved = "no"]_vars

\* C18, amended: the value of the order counts towards the exposure of a buy
\* only.  evaluate_order answers approved = False for a buy when position
\* value plus order value exceeds the limit, for a sell when the position
\* value alone exceeds it, and for any order when the balance is not
\* positive.
C18_ExposureLimit ==
    [][EvaluateStep =>
         LET c == risk_call'
             exposure == CurrentExposure(c.symbol)
                         + (IF c.side = "buy" THEN c.quantity * c.price ELSE 0)
         IN  (\/ c.account_balance <= 0
              \/ exposure * 100 > limits.max_exposure_per_asset * c.account_balance)
             => c.approved = "no"]_vars

\* a sell was refused because the position in its symbol is 18% of the balance
C18_Witness ==
    /\ risk_call.op = "evaluate_order" /\ risk_call.side = "sell"
    /\ risk_call.reason = "total exposure exceeds maximum"
    /\ risk_call.symbol \in DOMAIN open_positions
    /\ open_positions[risk_call.symbol].value * 100
          > limits.max_exposure_per_asset * risk_call.account_balance

(* ---------------- C19 ---------------- *)
\* the daily loss is beyond the limit for this balance
Breaker(account_balance) ==
    daily_pnl < 0 /\ (0 - daily_pnl) * 100 > account_balance * limits.max_daily_loss

\* the frames a process_order call can end in once evaluate_order has refused
RefusedFrames(g) ==
    LET refused == {process_order_publish_rejected(g, ok) : ok \in BOOLEAN}
    IN  {g} \cup refused
        \cup {process_order_except(h, ok) : h \in {x \in refused : x.pc = "publish_error"},
                                            ok \in BOOLEAN}

\* C19: while the daily loss is beyond the limit for the balance, every
\* evaluate_order call answers approved = False, and a process_order call
\* that reads this balance takes the rejected branch and sends no
\* create_order.  (The call recorded in risk_call was answered in the
\* current risk state unless reset_daily_metrics ran since, and then the
\* loss is zero.)
C19_CircuitBreaker ==
    /\ (risk_call.op = "evaluate_order" /\ Breaker(risk_call.account_balance))
          => risk_call.approved = "no"
    /\ (running /\ daily_pnl < 0) =>
        \A symbol \in Symbols, side \in Sides, quantity \in Quantities, price \in Prices,
             account_balance \in EvalBalances :
             Breaker(account_balance) =>
                LET f == process_order_begin(ncalls + 1, NoKey, symbol, side, quantity, price)
                    g == process_order_evaluate(f, FALSE, account_balance)
                IN  /\ g.risk.approved = "no"
                    /\ g.pc = "publish_rejected"
                    /\ \A h \in RefusedFrames(g) : ~InSeq("create_order", h.adapter)

\* an order within the size and exposure limits was refused for the daily loss
C19_Witness ==
    /\ running
    /\ risk_call.op = "evaluate_order"
    /\ risk_call.reason = "daily loss limit reached"
    /\ Breaker(risk_call.account_balance)

CloseStep == risk_ncalls' = risk_ncalls + 1 /\ risk_call'.op = "record_position_close"

\* the step is a run of reset_daily_metrics (or changes nothing): no call on
\* the RiskManager is recorded and the running flag is not touched
ResetStep == risk_call' = risk_call /\ risk_ncalls' = risk_ncalls /\ running' = running

\* C21, as stated: daily_pnl changes only in a record_position_close that
\* removes an open position, by the pnl given, or in reset_daily_metrics, to
\* zero; every other operation of the RiskManager leaves it alone.
C21_Original ==
    [][daily_pnl' # daily_pnl =>
         \/ /\ CloseStep
            /\ risk_call'.symbol \in DOMAIN open_positions
            /\ daily_pnl' = daily_pnl + risk_call'.pnl
         \/ /\ ResetStep
            /\ daily_pnl' = 0]_vars

\* the step is a record_trade call
TradeStep == risk_ncalls' = risk_ncalls + 1 /\ risk_call'.op = "record_trade"

\* C21, amended: daily_pnl changes only in a record_position_close that
\* removes an open position, by the pnl given, in a record_trade whose trade
\* is flagged is_closing_trade, by the pnl of the trade, or in
\* reset_daily_metrics, to zero; evaluate_order, record_position_open, a
\* record_trade that is not flagged, get_risk_metrics and update_config leave
\* it alone.
C21_DailyPnlWriters ==
    [][daily_pnl' # daily_pnl =>
         \/ /\ CloseStep
            /\ risk_call'.symbol \in DOMAIN open_positions
            /\ daily_pnl' = daily_pnl + risk_call'.pnl
         \/ /\ TradeStep
            /\ risk_call'.is_closing_trade
            /\ daily_pnl' = daily_pnl + risk_call'.pnl
         \/ /\ ResetStep
            /\ daily_pnl' = 0]_vars

\* a trade that is not flagged, with a pnl of its own, was recorded after a
\* closing trade had moved daily_pnl
C21_Witness ==
    /\ risk_call.op = "record_trade"
    /\ ~risk_call.is_closing_trade
    /\ risk_call.pnl = -30
    /\ daily_trades = 2
    /\ daily_pnl = -30

(* ---------------- C22 ---------------- *)
\* C22: a record_position_close for a symbol that has no open position
\* changes neither the open positions, nor daily_pnl, nor the trades of the
\* day.
C22_CloseWithoutPosition ==
    [][(CloseStep /\ risk_call'.symbol \notin DOMAIN open_positions)
       => UNCHANGED <<open_positions, daily_pnl, daily_trades>>]_vars

\* since the last reset every record_position_close, the last call among
\* them, was for a symbol without a position, while another symbol has one
C22_Witness ==
    /\ risk_call.op = "record_position_close"
    /\ close_args # 0
    /\ realized_args = 0
    /\ daily_pnl = 0
    /\ risk_call.symbol \notin DOMAIN open_positions
    /\ DOMAIN open_positions # {}

(* ---------------- C23 ---------------- *)
\* C23: reset_daily_metrics sets daily_pnl to zero and empties daily_trades,
\* and leaves the open positions and the four limits as they are.
C23_ResetKeepsPositions ==
    [][ResetStep =>
         /\ daily_pnl' = 0
         /\ daily_trades' = 0
         /\ open_positions' = open_positions
         /\ limits' = limits]_vars

\* a closing trade was recorded and then wiped by a reset, with a position
\* open and a limit changed from its default
C23_Witness ==
    /\ risk_call.op = "record_trade"
    /\ daily_trades = 0
    /\ daily_pnl = 0
    /\ DOMAIN open_positions # {}
    /\ limits.max_open_positions # max_open_positions

(* ---------------- C24 ---------------- *)
\* the signed quantity a call's fill handling passed on: plus for a buy, minus
\* for a sell, nothing for a call that handled no fill
SignedFill(f) ==
    IF f.op = "process_order" /\ f.fill_handled
    THEN (IF f.side = "buy" THEN position_data(f).quantity ELSE 0 - position_data(f).quantity)
    ELSE 0

\* C24, as stated, for the first two calls after construction: once the fill
\* of a process_order call is handled, the symbol has a position exactly when
\* the net quantity filled in that symbol so far, buys minus sells, is not
\* zero, and the quantity of the position is that net quantity.
C24_Original ==
    [][(/\ ncalls' = ncalls + 1 /\ ncalls' <= 2
        /\ last'.op = "process_order" /\ last'.fill_handled)
       => LET symbol == last'.symbol
              before == IF ncalls = 1 /\ last.symbol = symbol THEN SignedFill(last) ELSE 0
              net == before + SignedFill(last')
          IN  /\ (symbol \in DOMAIN open_positions') <=> (net # 0)
              /\ (net # 0) => open_positions'[symbol].quantity = net]_vars

FactoryGetStep ==
    /\ di_ncalls' = di_ncalls + 1
    /\ di_call'.op = "get"
    /\ di_call'.name \in DOMAIN factories

\* C26, as stated: a get of a name registered with a singleton factory
\* returns the instance the container holds for the name, the same as any
\* instance held before, and the factory has been invoked at most once; a
\* get of a name registered with a non-singleton factory returns an instance
\* created by this call, and the container stores nothing.
C26_Original ==
    [][FactoryGetStep =>
         LET name == di_call'.name
         IN  IF factories[name].is_singleton
             THEN /\ di_call'.raised = ""
                  /\ name \in DOMAIN components'
                  /\ di_call'.ret = components'[name]
                  /\ name \in DOMAIN components => components'[name] = components[name]
                  /\ factory_calls'[name] <= 1
             ELSE /\ di_call'.raised = ""
                  /\ di_call'.ret = made + 1 /\ made' = made + 1
                  /\ components' = components
                  /\ name \notin DOMAIN components]_vars

(* ---------------- C27 ---------------- *)
\* C27, as stated: whenever the adapter's create_order answered a result
\* that is no error, process_order returns that result, also when publishing
\* order.created or trade.executed, or telling the RiskManager, failed
\* afterwards.
C27_Original ==
    (last.op = "process_order" /\ CreateSucceeded(last)) => last.ret = RetResult(last.result)

(* ---------------- C28 ---------------- *)
\* C28, as stated: however concurrent process_order calls interleave at
\* their awaits, the number of open positions never exceeds
\* max_open_positions.
C28_Original == Cardinality(DOMAIN open_positions) <= limits.max_open_positions

(* ---------------- C29 ---------------- *)
\* the requests of one kind a task has sent to the adapter
Requests(kind, f) == Cardinality({i \in 1..Len(f.adapter) : f.adapter[i] = kind})

\* C29, as stated: while the manager is stopped, from the return of stop()
\* to the next start(), no task sends create_order or cancel_order to the
\* adapter and no position is recorded in or removed from the RiskManager,
\* tasks suspended at an await when stop() ran included.
C29_Original ==
    [][(~running /\ ~running') =>
         /\ \A t \in DOMAIN tasks :
               /\ Requests("create_order", tasks'[t]) = Requests("create_order", tasks[t])
               /\ Requests("cancel_order", tasks'[t]) = Requests("cancel_order", tasks[t])
         /\ open_positions' = open_positions
         /\ daily_pnl' = daily_pnl]_vars

(* ---------------- C30 ---------------- *)
\* C30: while the RiskManager is written only by the fill handling of
\* process_order and by reset_daily_metrics, daily_pnl is never negative, and
\* no process_order call is refused for the daily loss.
C30_DailyPnlNeverNegative ==
    /\ daily_pnl >= 0
    /\ last.op = "process_order" => last.risk.reason # "daily loss limit reached"

\* a sell filled at once closed the position of its symbol, and its value
\* went into daily_pnl
C30_Witness ==
    /\ ncalls = 2
    /\ last.op = "process_order" /\ last.side = "sell" /\ last.fill_handled
    /\ last.symbol \notin DOMAIN open_positions
    /\ daily_pnl = position_data(last).value
    /\ daily_pnl > 0

====
